---- MODULE Spec2Model ----
(***************************************************************************)
(* IsoCellSet (JavaScriptCore heap): a concurrent membership bitmap over a *)
(* two-tier heap.  Block-tier cells are addressed by (blockIndex,          *)
(* atomNumber) and recorded in a lazily created per-block bitmap;          *)
(* precise (large-object) cells are addressed by lowerTierPreciseIndex and *)
(* recorded in one bit vector.  The model follows IsoCellSetInlines.h step *)
(* by step: every shared-memory access of add/remove/contains is one       *)
(* action of a thread.                                                     *)
(***************************************************************************)
EXTENDS Integers, FiniteSets, Bags, TLC

(* ------------------------------ bounds -------------------------------- *)
NumBlocks == 2
AtomsPerBlock == 3
NumPrecise == 2
NumThreads == 2
NumWorkers == 2
MaxCallAtoms == 2
MaxNewlyAllocated == 1
MaxCallPrecise == 1

Blocks == 0 .. (NumBlocks - 1)
Atoms == 0 .. (AtomsPerBlock - 1)
PreciseIndices == 0 .. (NumPrecise - 1)
Threads == 1 .. NumThreads
Workers == 1 .. NumWorkers

(* A HeapCell: <<"block", blockIndex, atomNumber>> or                      *)
(* <<"precise", lowerTierPreciseIndex, 0>>.                                *)
BlockCells == {<<"block", b, a>> : b \in Blocks, a \in Atoms}
PreciseCells == {<<"precise", i, 0>> : i \in PreciseIndices}
Cells == BlockCells \cup PreciseCells
(* The cells that populate the sets and markings the behaviours start      *)
(* from: the precise allocations among them have an index below            *)
(* MaxCallPrecise; the other precise allocations are touched by            *)
(* clearLowerTierPreciseCell alone.                                        *)
SetCells == {c \in Cells : c[1] = "precise" => c[2] < MaxCallPrecise}
(* The cells that the threads of the model pass to add/remove/contains.   *)
CallCells == {c \in SetCells : c[1] = "block" => c[3] < MaxCallAtoms}

isPreciseAllocation(cell) == cell[1] = "precise"
lowerTierPreciseIndex(cell) == cell[2]
blockIndex(cell) == cell[2]
atomNumber(cell) == cell[3]
(* AtomIndices atomIndices(cell): the position of a block-tier cell.       *)
atomIndices_mut(cell) == [blockIndex |-> cell[2], atomNumber |-> 0]
atomIndices(cell) == [blockIndex |-> cell[2], atomNumber |-> cell[3]]

(* Bitmap objects have an identity: the bitmap constructed by thread t for *)
(* block b is object BitmapId(t, b); owner 0 is a call that returned       *)
(* before the behaviour starts.  NULL is the empty unique_ptr.             *)
NULL == 0
BitmapId(t, b) == t * NumBlocks + b + 1
BitmapIds == {BitmapId(t, b) : t \in 0 .. NumThreads, b \in Blocks}

VARIABLES
    m_bits,                  \* [Blocks -> BitmapIds \cup {NULL}]
    bitmaps,                 \* [BitmapIds -> SUBSET Atoms]: the bits of each bitmap object
    m_blocksWithBits,        \* SUBSET Blocks
    m_lowerTierPreciseBits,  \* SUBSET PreciseIndices
    th,                      \* [Threads -> call record]: each thread's position
    h_added,                 \* history: cells whose last successful add is not yet removed
    h_installs,              \* history: [Blocks -> Nat] count of bitmap installations
    h_init,                  \* history: the members when the behaviour started
    marked,                  \* collector: SUBSET Cells, the cells whose mark bit is set
    live,                    \* collector: SUBSET Cells, the cells that are live
    en,                      \* the sequential enumeration in progress
    task,                    \* the Task of forEachMarkedCellInParallel
    wk,                      \* [Workers -> position in Task::run]
    visited                  \* [enumeration -> bag of cells]: the calls of func

setVars == <<m_bits, bitmaps, m_blocksWithBits, m_lowerTierPreciseBits>>
histVars == <<h_added, h_installs, h_init>>
gcVars == <<marked, live>>
enumVars == <<en, task, wk, visited>>
vars == <<m_bits, bitmaps, m_blocksWithBits, m_lowerTierPreciseBits, th,
          h_added, h_installs, h_init, marked, live, en, task, wk, visited>>

(* --------------------- the atomic bit-vector primitive ----------------- *)
get(bits, i) == i \in bits
testAndSetNew(bits, i) == bits \cup {i}
testAndClearNew(bits, i) == bits \ {i}

(* --------------------------- return values ----------------------------- *)
addResult_mut(previous) == previous
addResult(previous) == ~previous
removeResult_mut(previous) == ~previous
removeResult(previous) == previous
containsPrecise(cell) == ~get(m_lowerTierPreciseBits, lowerTierPreciseIndex(cell))
containsBlock(bits, cell) ==
    IF bits # NULL THEN get(bitmaps[bits], atomIndices(cell).atomNumber) ELSE FALSE

(* contains(cell) run without interruption in the current state.           *)
contains(cell) ==
    IF isPreciseAllocation(cell)
    THEN containsPrecise(cell)
    ELSE containsBlock(m_bits[atomIndices(cell).blockIndex], cell)

(* The single bit that records the membership of cell, in a set whose     *)
(* slots, bitmap objects and precise bit vector are given.                 *)
BitOf(slots, objects, preciseBits, cell) ==
    IF isPreciseAllocation(cell)
    THEN lowerTierPreciseIndex(cell) \in preciseBits
    ELSE /\ slots[blockIndex(cell)] # NULL
         /\ atomNumber(cell) \in objects[slots[blockIndex(cell)]]

Bit(cell) == BitOf(m_bits, bitmaps, m_lowerTierPreciseBits, cell)

(* ------------------------------ threads -------------------------------- *)
NoCell == <<"none", 0, 0>>
Idle == [pc |-> "idle", op |-> "none", cell |-> NoCell, bits |-> NULL, ret |-> FALSE]
Returned(o, c, r) == [pc |-> "idle", op |-> o, cell |-> c, bits |-> NULL, ret |-> r]
InCall(p, o, c, b) == [pc |-> p, op |-> o, cell |-> c, bits |-> b, ret |-> FALSE]

(* ------------------------- enumeration state -------------------------- *)
EnumKinds == {"marked", "parallel", "live"}
NoVisits == [k \in EnumKinds |-> EmptyBag]
EnIdle == [pc |-> "idle", index |-> 0]
NoTask == [created |-> FALSE, m_index |-> 0, m_doneVisitingPreciseAllocations |-> FALSE,
           handouts |-> [b \in Blocks |-> 0]]
WkIdle == [pc |-> "idle", swept |-> FALSE]

NoEnumeration ==
    /\ en = EnIdle
    /\ task = NoTask
    /\ wk = [w \in Workers |-> WkIdle]
    /\ visited = NoVisits

(* The set as it is when no call is in progress: the blocks of installed   *)
(* have a bitmap (and their flag), holding the block cells of members.     *)
QuiescentSet(installed, members) ==
    /\ m_bits = [b \in Blocks |-> IF b \in installed THEN BitmapId(0, b) ELSE NULL]
    /\ bitmaps = [i \in BitmapIds |->
                     {a \in Atoms : \E b \in installed :
                         i = BitmapId(0, b) /\ <<"block", b, a>> \in members}]
    /\ m_blocksWithBits = installed
    /\ m_lowerTierPreciseBits = {i \in PreciseIndices : <<"precise", i, 0>> \in members}
    /\ h_added = members
    /\ h_installs = [b \in Blocks |-> IF b \in installed THEN 1 ELSE 0]
    /\ h_init = members

Init ==
    /\ QuiescentSet({}, {})
    /\ th = [t \in Threads |-> Idle]
    /\ marked = {}
    /\ live = {}
    /\ NoEnumeration

(* add, precise tier: one concurrentTestAndSet.                            *)
AddPrecise(t, cell) ==
    /\ th[t].pc = "idle"
    /\ isPreciseAllocation(cell)
    /\ LET previous == get(m_lowerTierPreciseBits, lowerTierPreciseIndex(cell))
           result == addResult(previous)
       IN /\ m_lowerTierPreciseBits' = testAndSetNew(m_lowerTierPreciseBits, lowerTierPreciseIndex(cell))
          /\ th' = [th EXCEPT ![t] = Returned("add", cell, result)]
          /\ h_added' = IF result THEN h_added \cup {cell} ELSE h_added
    /\ UNCHANGED <<m_bits, bitmaps, m_blocksWithBits, h_installs, h_init, gcVars, enumVars>>

(* add, block tier: load m_bits[blockIndex]; a null pointer goes to        *)
(* addSlow, anything else to the test-and-set.                             *)
AddLoad(t, cell) ==
    /\ th[t].pc = "idle"
    /\ ~isPreciseAllocation(cell)
    /\ LET bits == m_bits[atomIndices(cell).blockIndex]
       IN th' = [th EXCEPT ![t] =
                    IF bits = NULL
                    THEN InCall("addSlow", "add", cell, NULL)
                    ELSE InCall("add_tas", "add", cell, bits)]
    /\ UNCHANGED <<setVars, histVars, gcVars, enumVars>>

(* addSlow: construct the candidate bitmap and raise the block's flag in   *)
(* m_blocksWithBits (no later than the installation).                      *)
addSlowFlagged_mut(flags, b) == flags
addSlowFlagged(flags, b) == flags \cup {b}

AddSlowFlag(t) ==
    /\ th[t].pc = "addSlow"
    /\ m_blocksWithBits' = addSlowFlagged(m_blocksWithBits, atomIndices(th[t].cell).blockIndex)
    /\ th' = [th EXCEPT ![t].pc = "addSlow_cas",
                        ![t].bits = BitmapId(t, atomIndices(th[t].cell).blockIndex)]
    /\ UNCHANGED <<m_bits, bitmaps, m_lowerTierPreciseBits, histVars, gcVars, enumVars>>

(* addSlow: install the candidate if the slot is still empty; otherwise    *)
(* discard it and adopt the installed bitmap.                              *)
addSlowInstalled_mut(slot, candidate) == candidate
addSlowInstalled(slot, candidate) == IF slot = NULL THEN candidate ELSE slot

AddSlowInstall(t) ==
    /\ th[t].pc = "addSlow_cas"
    /\ LET b == atomIndices(th[t].cell).blockIndex
           installed == addSlowInstalled(m_bits[b], th[t].bits)
       IN /\ m_bits' = [m_bits EXCEPT ![b] = installed]
          /\ h_installs' = [h_installs EXCEPT ![b] = IF m_bits[b] # installed THEN @ + 1 ELSE @]
          /\ th' = [th EXCEPT ![t].pc = "add_tas", ![t].bits = installed]
    /\ UNCHANGED <<bitmaps, m_blocksWithBits, m_lowerTierPreciseBits, h_added, h_init, gcVars, enumVars>>

(* add, block tier: bits->concurrentTestAndSet(atomNumber).                *)
AddTestAndSet(t) ==
    /\ th[t].pc = "add_tas"
    /\ LET cell == th[t].cell
           bits == th[t].bits
           previous == get(bitmaps[bits], atomIndices(cell).atomNumber)
           result == addResult(previous)
       IN /\ bitmaps' = [bitmaps EXCEPT ![bits] = testAndSetNew(@, atomIndices(cell).atomNumber)]
          /\ th' = [th EXCEPT ![t] = Returned("add", cell, result)]
          /\ h_added' = IF result THEN h_added \cup {cell} ELSE h_added
    /\ UNCHANGED <<m_bits, m_blocksWithBits, m_lowerTierPreciseBits, h_installs, h_init, gcVars, enumVars>>

(* remove, precise tier: one concurrentTestAndClear.                       *)
RemovePrecise(t, cell) ==
    /\ th[t].pc = "idle"
    /\ isPreciseAllocation(cell)
    /\ LET previous == get(m_lowerTierPreciseBits, lowerTierPreciseIndex(cell))
           result == removeResult(previous)
       IN /\ m_lowerTierPreciseBits' = testAndClearNew(m_lowerTierPreciseBits, lowerTierPreciseIndex(cell))
          /\ th' = [th EXCEPT ![t] = Returned("remove", cell, result)]
          /\ h_added' = IF result THEN h_added \ {cell} ELSE h_added
    /\ UNCHANGED <<m_bits, bitmaps, m_blocksWithBits, h_installs, h_init, gcVars, enumVars>>

(* remove, block tier: load m_bits[blockIndex]; a null pointer returns     *)
(* false at once.                                                          *)
removeLoad_mut(bits, cell) ==
    IF bits = NULL
    THEN Returned("remove", cell, TRUE)
    ELSE InCall("remove_tac", "remove", cell, bits)

removeLoad_wait(bits, cell) ==
    IF bits = NULL
    THEN InCall("remove_wait", "remove", cell, NULL)
    ELSE InCall("remove_tac", "remove", cell, bits)

removeLoad(bits, cell) ==
    IF bits = NULL
    THEN Returned("remove", cell, FALSE)
    ELSE InCall("remove_tac", "remove", cell, bits)

RemoveLoad(t, cell) ==
    /\ th[t].pc = "idle"
    /\ ~isPreciseAllocation(cell)
    /\ th' = [th EXCEPT ![t] = removeLoad(m_bits[atomIndices(cell).blockIndex], cell)]
    /\ UNCHANGED <<setVars, histVars, gcVars, enumVars>>

(* remove, block tier: bits->concurrentTestAndClear(atomNumber).           *)
RemoveTestAndClear(t) ==
    /\ th[t].pc = "remove_tac"
    /\ LET cell == th[t].cell
           bits == th[t].bits
           previous == get(bitmaps[bits], atomIndices(cell).atomNumber)
           result == removeResult(previous)
       IN /\ bitmaps' = [bitmaps EXCEPT ![bits] = testAndClearNew(@, atomIndices(cell).atomNumber)]
          /\ th' = [th EXCEPT ![t] = Returned("remove", cell, result)]
          /\ h_added' = IF result THEN h_added \ {cell} ELSE h_added
    /\ UNCHANGED <<m_bits, m_blocksWithBits, m_lowerTierPreciseBits, h_installs, h_init, gcVars, enumVars>>

(* contains, precise tier: one plain read.                                 *)
ContainsPrecise(t, cell) ==
    /\ th[t].pc = "idle"
    /\ isPreciseAllocation(cell)
    /\ th' = [th EXCEPT ![t] = Returned("contains", cell, containsPrecise(cell))]
    /\ UNCHANGED <<setVars, histVars, gcVars, enumVars>>

(* contains, block tier: load m_bits[blockIndex]; a null pointer returns   *)
(* false.                                                                  *)
ContainsLoad(t, cell) ==
    /\ th[t].pc = "idle"
    /\ ~isPreciseAllocation(cell)
    /\ LET bits == m_bits[atomIndices(cell).blockIndex]
       IN th' = [th EXCEPT ![t] =
                    IF bits # NULL
                    THEN InCall("contains_get", "contains", cell, bits)
                    ELSE Returned("contains", cell, containsBlock(bits, cell))]
    /\ UNCHANGED <<setVars, histVars, gcVars, enumVars>>

(* contains, block tier: bits->get(atomNumber).                            *)
ContainsGet(t) ==
    /\ th[t].pc = "contains_get"
    /\ th' = [th EXCEPT ![t] = Returned("contains", th[t].cell, containsBlock(th[t].bits, th[t].cell))]
    /\ UNCHANGED <<setVars, histVars, gcVars, enumVars>>

(* The steps of thread t inside a call that it has started.                *)
ThreadStep(t) ==
    \/ AddSlowFlag(t)
    \/ AddSlowInstall(t)
    \/ AddTestAndSet(t)
    \/ RemoveTestAndClear(t)
    \/ ContainsGet(t)

(* The largest number of steps that a call at position pc still takes.     *)
StepsLeft(pc) ==
    CASE pc = "idle" -> 0
      [] pc = "add_tas" -> 1
      [] pc = "remove_tac" -> 1
      [] pc = "contains_get" -> 1
      [] pc = "addSlow_cas" -> 2
      [] pc = "addSlow" -> 3
      [] OTHER -> 4

Next ==
    \E t \in Threads :
        \/ \E cell \in CallCells : AddPrecise(t, cell)
        \/ \E cell \in CallCells : AddLoad(t, cell)
        \/ AddSlowFlag(t)
        \/ AddSlowInstall(t)
        \/ AddTestAndSet(t)
        \/ \E cell \in CallCells : RemovePrecise(t, cell)
        \/ \E cell \in CallCells : RemoveLoad(t, cell)
        \/ RemoveTestAndClear(t)
        \/ \E cell \in CallCells : ContainsPrecise(t, cell)
        \/ \E cell \in CallCells : ContainsLoad(t, cell)
        \/ ContainsGet(t)

Spec == Init /\ [][Next]_vars

(* ------------------- clearLowerTierPreciseCell ------------------------- *)
(* m_lowerTierPreciseBits.concurrentTestAndClear(index), result dropped.   *)
clearLowerTierPreciseCell_mut(bits, index) == testAndClearNew(bits, 0)
clearLowerTierPreciseCell(bits, index) == testAndClearNew(bits, index)

ClearLowerTierPreciseCell(t, index) ==
    /\ th[t].pc = "idle"
    /\ m_lowerTierPreciseBits' = clearLowerTierPreciseCell(m_lowerTierPreciseBits, index)
    /\ th' = [th EXCEPT ![t] = Returned("clear", <<"precise", index, 0>>, FALSE)]
    /\ h_added' = h_added \ {<<"precise", index, 0>>}
    /\ UNCHANGED <<m_bits, bitmaps, m_blocksWithBits, h_installs, h_init, gcVars, enumVars>>

(* add, remove, contains and clearLowerTierPreciseCell from several        *)
(* threads; the precise allocations that no thread adds may be members     *)
(* from the start.                                                         *)
InitClear ==
    /\ \E members \in SUBSET (PreciseCells \ SetCells) : QuiescentSet({}, members)
    /\ th = [t \in Threads |-> Idle]
    /\ marked = {}
    /\ live = {}
    /\ NoEnumeration

NextClear ==
    \/ Next
    \/ \E t \in Threads, index \in PreciseIndices : ClearLowerTierPreciseCell(t, index)

SpecClear == InitClear /\ [][NextClear]_vars

(* ------------- one add per thread, from any quiescent set -------------- *)
QuiescentSets ==
    {<<installed, members>> \in (SUBSET Blocks) \X (SUBSET SetCells) :
        \A c \in members : isPreciseAllocation(c) \/ blockIndex(c) \in installed}

InitAddRace ==
    /\ \E q \in QuiescentSets : QuiescentSet(q[1], q[2])
    /\ th = [t \in Threads |-> Idle]
    /\ marked = {}
    /\ live = {}
    /\ NoEnumeration

NextAddRace ==
    \E t \in Threads :
        \/ \E cell \in CallCells : th[t] = Idle /\ AddPrecise(t, cell)
        \/ \E cell \in CallCells : th[t] = Idle /\ AddLoad(t, cell)
        \/ AddSlowFlag(t)
        \/ AddSlowInstall(t)
        \/ AddTestAndSet(t)

SpecAddRace == InitAddRace /\ [][NextAddRace]_vars

(* ------- one add or one remove per thread, from any quiescent set ------ *)
NextOneCall ==
    \/ NextAddRace
    \/ \E t \in Threads :
          \/ \E cell \in CallCells : th[t] = Idle /\ RemovePrecise(t, cell)
          \/ \E cell \in CallCells : th[t] = Idle /\ RemoveLoad(t, cell)
          \/ RemoveTestAndClear(t)

SpecOneCall == InitAddRace /\ [][NextOneCall]_vars

(* ---------------- the collector's side of the heap --------------------- *)
isMarked(cell) == cell \in marked
isLive(cell) == cell \in live
markingNotEmptyBitsView == {b \in Blocks : \E a \in Atoms : isMarked(<<"block", b, a>>)}

(* BitVector::findBit(from, true) over a set of block indices;             *)
(* NumBlocks when there is none.                                           *)
findBit(view, from) ==
    IF \E b \in view : b >= from
    THEN CHOOSE b \in view : b >= from /\ \A o \in view : o >= from => b <= o
    ELSE NumBlocks

Visit(kind, cells) == [visited EXCEPT ![kind] = @ (+) SetToBag(cells)]
Visits(kind, cell) == CopiesIn(cell, visited[kind])

(* ----------------------- forEachMarkedCell ----------------------------- *)
forEachMarkedCellView == markingNotEmptyBitsView \cap m_blocksWithBits

(* The cells of block b that block->forEachMarkedCell hands to func.       *)
markedCellsOfBlock_mut(bits, b) ==
    {<<"block", b, a>> : a \in {x \in Atoms : isMarked(<<"block", b, x>>)}}

markedCellsOfBlock(bits, b) ==
    {<<"block", b, a>> : a \in {x \in Atoms : isMarked(<<"block", b, x>>) /\ get(bitmaps[bits], x)}}

(* The precise allocations that the sweep hands to func.                   *)
markedPreciseCells ==
    {c \in PreciseCells : get(m_lowerTierPreciseBits, lowerTierPreciseIndex(c)) /\ isMarked(c)}

StartForEachMarkedCell ==
    /\ en.pc = "idle"
    /\ \A t \in Threads : th[t].pc = "idle"
    /\ en' = [pc |-> "marked_blocks", index |-> 0]
    /\ UNCHANGED <<setVars, histVars, th, gcVars, task, wk, visited>>

ForEachMarkedCellBlock ==
    /\ en.pc = "marked_blocks"
    /\ LET b == findBit(forEachMarkedCellView, en.index)
           bits == m_bits[b]
       IN /\ b < NumBlocks
          /\ IF bits = NULL
             THEN /\ en' = [en EXCEPT !.pc = "null_deref"]
                  /\ UNCHANGED visited
             ELSE /\ visited' = Visit("marked", markedCellsOfBlock(bits, b))
                  /\ en' = [en EXCEPT !.index = b + 1]
    /\ UNCHANGED <<setVars, histVars, th, gcVars, task, wk>>

ForEachMarkedCellPrecise ==
    /\ en.pc = "marked_blocks"
    /\ findBit(forEachMarkedCellView, en.index) = NumBlocks
    /\ visited' = Visit("marked", markedPreciseCells)
    /\ en' = [en EXCEPT !.pc = "marked_done"]
    /\ UNCHANGED <<setVars, histVars, th, gcVars, task, wk>>

(* ------------------- forEachMarkedCellInParallel ----------------------- *)
(* The Task is constructed with its block source at index 0 and the flag   *)
(* clear; every worker then calls run once.  The model runs it on the      *)
(* state that forEachMarkedCell has just enumerated.                       *)
ForEachMarkedCellInParallel ==
    /\ ~task.created
    /\ en.pc = "marked_done"
    /\ \A t \in Threads : th[t].pc = "idle"
    /\ task' = [NoTask EXCEPT !.created = TRUE]
    /\ wk' = [w \in Workers |-> [pc |-> "run", swept |-> FALSE]]
    /\ UNCHANGED <<setVars, histVars, th, gcVars, en, visited>>

(* m_blockSource->run(): the next block of markingNotEmpty & blocksWithBits *)
(* at or after m_index, handed to this worker alone.                       *)
blockSourceNext == findBit(markingNotEmptyBitsView \cap m_blocksWithBits, task.m_index)

(* The cells of block b that handle->forEachMarkedCell hands to m_func in  *)
(* Task::run, and the precise allocations that its sweep hands to m_func.  *)
taskMarkedCellsOfBlock_mut(bits, b) ==
    {<<"block", b, a>> : a \in {x \in Atoms : get(bitmaps[bits], x)}}

taskMarkedCellsOfBlock(bits, b) ==
    {<<"block", b, a>> : a \in {x \in Atoms : isMarked(<<"block", b, x>>) /\ get(bitmaps[bits], x)}}

taskMarkedPreciseCells ==
    {c \in PreciseCells : get(m_lowerTierPreciseBits, lowerTierPreciseIndex(c)) /\ isMarked(c)}

(* One turn of the loop of Task::run: the source hands block b to this    *)
(* worker, which reports the marked cells of b whose bit is set.           *)
TaskRunBlock(w) ==
    /\ wk[w].pc = "run"
    /\ LET b == blockSourceNext
           bits == m_bits[b]
       IN /\ b < NumBlocks
          /\ task' = [task EXCEPT !.m_index = b + 1, !.handouts[b] = @ + 1]
          /\ IF bits = NULL
             THEN /\ wk' = [wk EXCEPT ![w].pc = "null_deref"]
                  /\ UNCHANGED visited
             ELSE /\ visited' = Visit("parallel", taskMarkedCellsOfBlock(bits, b))
                  /\ UNCHANGED wk
    /\ UNCHANGED <<setVars, histVars, th, gcVars, en>>

(* The source has no block left: the loop of this worker ends.             *)
TaskRunExhausted(w) ==
    /\ wk[w].pc = "run"
    /\ blockSourceNext = NumBlocks
    /\ task' = [task EXCEPT !.m_index = NumBlocks]
    /\ wk' = [wk EXCEPT ![w].pc = "flag"]
    /\ UNCHANGED <<setVars, histVars, th, gcVars, en, visited>>

(* m_doneVisitingPreciseAllocations.test_and_set(): the caller that finds  *)
(* the flag set returns, the one that sets it sweeps.                      *)
returnsWithoutSweep_mut(flagWasSet) == FALSE
returnsWithoutSweep_never(flagWasSet) == TRUE
returnsWithoutSweep_inv(flagWasSet) == ~flagWasSet
returnsWithoutSweep(flagWasSet) == flagWasSet

TaskRunFlag(w) ==
    /\ wk[w].pc = "flag"
    /\ task' = [task EXCEPT !.m_doneVisitingPreciseAllocations = TRUE]
    /\ wk' = [wk EXCEPT ![w].pc =
                 IF returnsWithoutSweep(task.m_doneVisitingPreciseAllocations)
                 THEN "done" ELSE "sweep"]
    /\ UNCHANGED <<setVars, histVars, th, gcVars, en, visited>>

TaskRunPrecise(w) ==
    /\ wk[w].pc = "sweep"
    /\ visited' = Visit("parallel", taskMarkedPreciseCells)
    /\ wk' = [wk EXCEPT ![w].pc = "done", ![w].swept = TRUE]
    /\ UNCHANGED <<setVars, histVars, th, gcVars, en, task>>

(* ------------------------- forEachLiveCell ----------------------------- *)
liveCellsOfBlock_mut(bits, b) ==
    {<<"block", b, a>> : a \in {x \in Atoms : get(bitmaps[bits], x) /\ isMarked(<<"block", b, x>>)}}

liveCellsOfBlock(bits, b) ==
    {<<"block", b, a>> : a \in {x \in Atoms : get(bitmaps[bits], x) /\ isLive(<<"block", b, x>>)}}

livePreciseCells ==
    {c \in PreciseCells : get(m_lowerTierPreciseBits, lowerTierPreciseIndex(c)) /\ isLive(c)}

(* The blocks that forEachLiveCell goes through: m_blocksWithBits.         *)
forEachLiveCellView_mut == Blocks
forEachLiveCellView == m_blocksWithBits

StartForEachLiveCell ==
    /\ en.pc = "idle"
    /\ \A t \in Threads : th[t].pc = "idle"
    /\ en' = [pc |-> "live_blocks", index |-> 0]
    /\ UNCHANGED <<setVars, histVars, th, gcVars, task, wk, visited>>

ForEachLiveCellBlock ==
    /\ en.pc = "live_blocks"
    /\ LET b == findBit(forEachLiveCellView, en.index)
           bits == m_bits[b]
       IN /\ b < NumBlocks
          /\ IF bits = NULL
             THEN /\ en' = [en EXCEPT !.pc = "null_deref"]
                  /\ UNCHANGED visited
             ELSE /\ visited' = Visit("live", liveCellsOfBlock(bits, b))
                  /\ en' = [en EXCEPT !.index = b + 1]
    /\ UNCHANGED <<setVars, histVars, th, gcVars, task, wk>>

ForEachLiveCellPrecise ==
    /\ en.pc = "live_blocks"
    /\ findBit(forEachLiveCellView, en.index) = NumBlocks
    /\ visited' = Visit("live", livePreciseCells)
    /\ en' = [en EXCEPT !.pc = "live_done"]
    /\ UNCHANGED <<setVars, histVars, th, gcVars, task, wk>>

(* ---------- enumeration of the marked cells, mutation stopped ---------- *)
InitEnum ==
    /\ \E q \in QuiescentSets : QuiescentSet(q[1], q[2])
    /\ th = [t \in Threads |-> Idle]
    /\ marked \in SUBSET SetCells
    /\ live = marked
    /\ NoEnumeration

NextEnum ==
    \/ StartForEachMarkedCell
    \/ ForEachMarkedCellBlock
    \/ ForEachMarkedCellPrecise
    \/ ForEachMarkedCellInParallel
    \/ \E w \in Workers : TaskRunBlock(w)
    \/ \E w \in Workers : TaskRunExhausted(w)
    \/ \E w \in Workers : TaskRunFlag(w)
    \/ \E w \in Workers : TaskRunPrecise(w)

SpecEnum == InitEnum /\ [][NextEnum]_vars

(* A worker that has been handed the task keeps being scheduled until its  *)
(* call of run returns.                                                    *)
TaskRun(w) == TaskRunBlock(w) \/ TaskRunExhausted(w) \/ TaskRunFlag(w) \/ TaskRunPrecise(w)

SpecEnumFair == SpecEnum /\ \A w \in Workers : WF_vars(TaskRun(w))

(* ------------- enumeration of the live cells, no mutation -------------- *)
(* The live cells are the marked ones and up to MaxNewlyAllocated that     *)
(* are live without a mark.                                                *)
InitLive ==
    /\ \E q \in QuiescentSets : QuiescentSet(q[1], q[2])
    /\ th = [t \in Threads |-> Idle]
    /\ marked \in SUBSET SetCells
    /\ \E newlyAllocated \in SUBSET (SetCells \ marked) :
          /\ Cardinality(newlyAllocated) <= MaxNewlyAllocated
          /\ live = marked \cup newlyAllocated
    /\ NoEnumeration

NextLive ==
    \/ StartForEachLiveCell
    \/ ForEachLiveCellBlock
    \/ ForEachLiveCellPrecise

SpecLive == InitLive /\ [][NextLive]_vars

(* ------------- enumerations while other threads call add --------------- *)
(* forEachLiveCell has no mutator-stopped precondition: it runs while the  *)
(* threads add cells, each thread one add.  forEachMarkedCell and the      *)
(* parallel task run with the mutator stopped: no thread takes a step      *)
(* while one of them is in progress.                                       *)
MutatorStopped ==
    \/ en.pc = "marked_blocks"
    \/ task.created /\ \E w \in Workers : wk[w].pc # "done"

InitRace ==
    /\ \E q \in QuiescentSets : QuiescentSet(q[1], q[2])
    /\ th = [t \in Threads |-> Idle]
    /\ marked = SetCells
    /\ live = SetCells
    /\ NoEnumeration

NextRace ==
    \/ ~MutatorStopped /\ NextAddRace
    \/ NextLive
    \/ NextEnum

SpecRace == InitRace /\ [][NextRace]_vars

(* ======================= properties of the set ========================= *)
(* Thread t returns from a call of operation o in this step; the cell of   *)
(* the call is th'[t].cell.                                                *)
Completed(t, o) ==
    /\ th'[t] # th[t]
    /\ th'[t].pc = "idle"
    /\ th'[t].op = o

BitAfter(cell) == BitOf(m_bits', bitmaps', m_lowerTierPreciseBits', cell)

(* C1: round trip, either tier.  The add(c) that adds c starts with        *)
(* contains(c) false; after every add(c) contains(c) is true; after every  *)
(* remove(c) contains(c) is false again.                                   *)
C1_RoundTrip ==
    [][\A t \in Threads, c \in Cells :
          /\ (Completed(t, "add") /\ th'[t].cell = c) =>
                 /\ th'[t].ret => ~contains(c)
                 /\ (contains(c))'
          /\ (Completed(t, "remove") /\ th'[t].cell = c) => ~(contains(c))']_vars

(* C2: a call of contains(cell) returns true iff the bit of cell is 1, and *)
(* changes nothing of the set.                                             *)
C2_ContainsIffBit ==
    [][\A t \in Threads :
          Completed(t, "contains") =>
              /\ th'[t].ret = Bit(th'[t].cell)
              /\ UNCHANGED setVars]_vars

(* C3: add(c) returns true iff this call changed the bit of c from 0 to 1, *)
(* which is iff no add(c) has returned true since the last remove(c) that  *)
(* returned true; the bit is 1 afterwards.                                 *)
C3_AddTrueExactlyOnce ==
    [][\A t \in Threads :
          Completed(t, "add") =>
              /\ th'[t].ret = ~Bit(th'[t].cell)
              /\ BitAfter(th'[t].cell)
              /\ th'[t].ret = (th'[t].cell \notin h_added)]_vars

(* C3 witness: one add(c) has returned true and a further add(c), with no  *)
(* remove between, has returned false.                                     *)
C3_Witness ==
    \E c \in CallCells : \E t1, t2 \in Threads :
        /\ th[t1] = Returned("add", c, TRUE)
        /\ th[t2] = Returned("add", c, FALSE)

(* C4: remove(c) returns true iff this call changed the bit of c from 1 to *)
(* 0; the bit is 0 afterwards.                                             *)
C4_RemoveTrueIffCleared ==
    [][\A t \in Threads :
          Completed(t, "remove") =>
              /\ th'[t].ret = Bit(th'[t].cell)
              /\ ~BitAfter(th'[t].cell)]_vars

(* C4 witness: a remove of a member has returned true in one tier and a    *)
(* remove of a non-member has returned false in the other.                 *)
C4_Witness ==
    \E c \in BlockCells, p \in PreciseCells : \E t1, t2 \in Threads :
        \/ th[t1] = Returned("remove", c, TRUE) /\ th[t2] = Returned("remove", p, FALSE)
        \/ th[t1] = Returned("remove", p, TRUE) /\ th[t2] = Returned("remove", c, FALSE)

(* C5: remove(c) of a block-tier cell whose block has no bitmap returns    *)
(* false and leaves the slot absent and the whole set unchanged.           *)
C5_RemoveWithoutBitmap ==
    [][\A t \in Threads :
          (/\ Completed(t, "remove")
           /\ ~isPreciseAllocation(th'[t].cell)
           /\ m_bits[blockIndex(th'[t].cell)] = NULL) =>
              /\ th'[t].ret = FALSE
              /\ m_bits'[blockIndex(th'[t].cell)] = NULL
              /\ UNCHANGED setVars]_vars

(* C5 witness: a remove has returned false for a block without a bitmap    *)
(* while another block and the precise tier hold members.                  *)
C5_Witness ==
    \E c \in BlockCells : \E t \in Threads :
        /\ th[t] = Returned("remove", c, FALSE)
        /\ m_bits[blockIndex(c)] = NULL
        /\ \E b \in Blocks : m_bits[b] # NULL /\ bitmaps[m_bits[b]] # {}
        /\ m_lowerTierPreciseBits # {}

(* Every thread has returned from one add, all of them of cell c.          *)
AllAdded(c) == \A t \in Threads : th[t].pc = "idle" /\ th[t].op = "add" /\ th[t].cell = c

(* C6: when every thread calls add(c) once, concurrently, for the same     *)
(* cell c that was not a member, exactly one call returns true and, once   *)
(* all have returned, contains(c) is true.                                 *)
C6_ConcurrentAddSameCell ==
    \A c \in Cells :
        (c \notin h_init /\ AllAdded(c)) =>
            /\ Cardinality({t \in Threads : th[t].ret}) = 1
            /\ contains(c)

(* Every thread has returned from one add, all of cells of block b, no two *)
(* of the same cell, and block b had no bitmap when the calls started.     *)
AllAddedDistinctIn(b) ==
    /\ \A t \in Threads :
          /\ th[t].pc = "idle" /\ th[t].op = "add"
          /\ ~isPreciseAllocation(th[t].cell) /\ blockIndex(th[t].cell) = b
    /\ \A t1, t2 \in Threads : t1 # t2 => th[t1].cell # th[t2].cell
    /\ m_bits[b] # BitmapId(0, b)

(* C7: when the threads add distinct cells of one block that has no bitmap *)
(* yet, then after all calls have returned every one of these bits is set  *)
(* in the installed bitmap, every call returned true and exactly one       *)
(* bitmap was installed for the block.                                     *)
C7_ConcurrentAddDistinctCells ==
    \A b \in Blocks :
        AllAddedDistinctIn(b) =>
            /\ m_bits[b] # NULL
            /\ \A t \in Threads : atomNumber(th[t].cell) \in bitmaps[m_bits[b]]
            /\ \A t \in Threads : th[t].ret
            /\ h_installs[b] = 1

(* C7 witness: all the adds have returned and the bitmap of the block was  *)
(* constructed by one of the racing threads.                               *)
C7_Witness ==
    \E b \in Blocks :
        /\ AllAddedDistinctIn(b)
        /\ \E t \in Threads : m_bits[b] = BitmapId(t, b)
        /\ \A t \in Threads : Bit(th[t].cell)

(* What an enumeration of kind k has reported: func was called at most     *)
(* once for a cell for which wanted holds and never for another one;       *)
(* exactly once when the enumeration is over.                              *)
Once(wanted) == IF wanted THEN 1 ELSE 0
MarkedMember(c) == Bit(c) /\ isMarked(c)
LiveMember(c) == Bit(c) /\ isLive(c)
AllWorkersDone == \A w \in Workers : wk[w].pc = "done"

(* C8: with mutation stopped, the Task run by all the workers calls func   *)
(* exactly once for each marked member (block cell or precise allocation)  *)
(* and for no other cell; no cell is ever reported twice.                  *)
C8_ParallelVisitsEachMarkedMemberOnce ==
    \A c \in Cells :
        /\ Visits("parallel", c) <= Once(MarkedMember(c))
        /\ AllWorkersDone => Visits("parallel", c) = Once(MarkedMember(c))

(* C8 witness: the workers are done, two blocks held marked members, and a *)
(* precise allocation was a marked member.                                 *)
C8_Witness ==
    /\ AllWorkersDone
    /\ \A b \in Blocks : \E a \in Atoms : Visits("parallel", <<"block", b, a>>) = 1
    /\ \E c \in PreciseCells : Visits("parallel", c) = 1
    /\ \E c \in Cells : Bit(c) /\ ~isMarked(c) /\ Visits("parallel", c) = 0
    /\ \E c \in Cells : ~Bit(c) /\ isMarked(c) /\ Visits("parallel", c) = 0

(* C9: with mutation stopped, forEachMarkedCell calls func exactly once    *)
(* for every cell that is a member and marked, and for no other cell.      *)
C9_ForEachMarkedCellExact ==
    en.pc = "marked_done" => \A c \in Cells : Visits("marked", c) = Once(MarkedMember(c))

(* C9 witness, the scenario of the specification: members are atoms 0 and  *)
(* 2 of block 0, atom 1 of block 1 and the large object; marked are atoms  *)
(* 0 and 1 of block 0, atom 1 of block 1 and the large object; reported    *)
(* are (block 0, atom 0), (block 1, atom 1) and the large object.          *)
C9_Witness ==
    /\ en.pc = "marked_done"
    /\ {c \in Cells : Bit(c)} =
          {<<"block", 0, 0>>, <<"block", 0, 2>>, <<"block", 1, 1>>, <<"precise", 0, 0>>}
    /\ marked = {<<"block", 0, 0>>, <<"block", 0, 1>>, <<"block", 1, 1>>, <<"precise", 0, 0>>}
    /\ visited["marked"] = SetToBag({<<"block", 0, 0>>, <<"block", 1, 1>>, <<"precise", 0, 0>>})

(* C10: with no mutation, forEachLiveCell calls func exactly once for      *)
(* every cell that is a member and live when it is enumerated, marked or   *)
(* not, and for no other cell.                                             *)
C10_ForEachLiveCellExact ==
    en.pc = "live_done" => \A c \in Cells : Visits("live", c) = Once(LiveMember(c))

(* C10 witness: reported are a live member without a mark and a live       *)
(* member with one, in both tiers together; a member that is not live is   *)
(* not reported.                                                           *)
C10_Witness ==
    /\ en.pc = "live_done"
    /\ \E c \in Cells : Bit(c) /\ isLive(c) /\ ~isMarked(c) /\ Visits("live", c) = 1
    /\ \E c \in Cells : Bit(c) /\ isLive(c) /\ isMarked(c) /\ Visits("live", c) = 1
    /\ \E c \in BlockCells : Bit(c) /\ ~isLive(c) /\ Visits("live", c) = 0
    /\ \E c \in PreciseCells : Visits("live", c) = 1

(* C11: the NonEmptyBlockIndex has no false negative: in every state, a    *)
(* block whose installed bitmap has a bit set has its flag set in          *)
(* m_blocksWithBits.                                                       *)
C11_NoFalseNegative ==
    \A b \in Blocks :
        (m_bits[b] # NULL /\ bitmaps[m_bits[b]] # {}) => b \in m_blocksWithBits

(* C11 witness: a member sits in a flagged block while another flagged     *)
(* block has an installed bitmap that is all zero (the converse fails).    *)
C11_Witness ==
    \E b1, b2 \in Blocks :
        /\ m_bits[b1] # NULL /\ bitmaps[m_bits[b1]] # {} /\ b1 \in m_blocksWithBits
        /\ m_bits[b2] # NULL /\ bitmaps[m_bits[b2]] = {} /\ b2 \in m_blocksWithBits

(* C12: a slot of m_bits that holds a bitmap keeps that very bitmap in     *)
(* every later step; a slot is installed at most once.                     *)
C12_BitmapNeverReplaced ==
    [][\A b \in Blocks :
          /\ m_bits[b] # NULL => m_bits'[b] = m_bits[b]
          /\ h_installs'[b] <= 1]_vars

(* C12 witness: two first-adders raced for one block; the winner's bitmap *)
(* is installed and holds its bit while the loser, with its own candidate, *)
(* is about to attempt its installation.                                   *)
C12_Witness ==
    \E b \in Blocks : \E t1, t2 \in Threads :
        /\ t1 # t2
        /\ m_bits[b] = BitmapId(t1, b)
        /\ bitmaps[m_bits[b]] # {}
        /\ h_installs[b] = 1
        /\ th[t2].pc = "addSlow_cas"
        /\ blockIndex(th[t2].cell) = b
        /\ th[t2].bits = BitmapId(t2, b)

(* The workers that are sweeping the precise allocations or have swept.    *)
Sweepers == {w \in Workers : wk[w].pc = "sweep" \/ wk[w].swept}

(* C13: at most one worker of a task ever sweeps the precise allocations,  *)
(* and as soon as one worker is past the flag exactly one worker is        *)
(* sweeping or has swept; every other worker returns without sweeping.     *)
C13_ExactlyOneSweep ==
    /\ Cardinality(Sweepers) <= 1
    /\ (\E w \in Workers : wk[w].pc \in {"sweep", "done"}) => Cardinality(Sweepers) = 1
    /\ \A w \in Workers : wk[w].swept => wk[w].pc = "done"

(* C13 witness: all workers have returned, one has swept a marked member   *)
(* precise allocation and another has returned without sweeping.           *)
C13_Witness ==
    /\ AllWorkersDone
    /\ \E w1, w2 \in Workers : wk[w1].swept /\ ~wk[w2].swept
    /\ \E c \in PreciseCells : Visits("parallel", c) = 1

(* C14: clearLowerTierPreciseCell(index) leaves bit index of the precise   *)
(* bit vector 0 and changes no other precise bit, no slot, no block bitmap *)
(* and no flag of m_blocksWithBits; with the bit already 0 the set is      *)
(* unchanged.                                                              *)
C14_ClearExactlyOneBit ==
    [][\A t \in Threads :
          Completed(t, "clear") =>
              /\ ~BitAfter(th'[t].cell)
              /\ m_lowerTierPreciseBits' =
                     m_lowerTierPreciseBits \ {lowerTierPreciseIndex(th'[t].cell)}
              /\ UNCHANGED <<m_bits, bitmaps, m_blocksWithBits>>
              /\ ~Bit(th'[t].cell) => UNCHANGED setVars]_vars

(* C14 witness: a clear has returned, its bit is 0, another precise bit is *)
(* still 1 and a block bitmap holds a member.                              *)
C14_Witness ==
    \E t \in Threads, i, j \in PreciseIndices :
        /\ th[t] = Returned("clear", <<"precise", i, 0>>, FALSE)
        /\ i \notin m_lowerTierPreciseBits
        /\ i # j /\ j \in m_lowerTierPreciseBits
        /\ <<"precise", i, 0>> \in h_init \/ \E u \in Threads : th[u] = Returned("add", <<"precise", i, 0>>, TRUE)
        /\ \E b \in Blocks : m_bits[b] # NULL /\ bitmaps[m_bits[b]] # {}

(* C15: on the same quiescent set and marking, the calls of func made by   *)
(* forEachMarkedCell and the calls made in total by the workers of one     *)
(* forEachMarkedCellInParallel task are the same multiset of cells.        *)
C15_ParallelEqualsSequential ==
    (en.pc = "marked_done" /\ AllWorkersDone) => visited["parallel"] = visited["marked"]

(* C15 witness: both enumerations have reported the same cells, among them *)
(* cells of two blocks and a precise allocation, and have left out a       *)
(* member without a mark and a marked cell that is no member.              *)
C15_Witness ==
    /\ en.pc = "marked_done" /\ AllWorkersDone
    /\ visited["parallel"] = visited["marked"]
    /\ \A b \in Blocks : \E a \in Atoms : Visits("marked", <<"block", b, a>>) = 1
    /\ \E c \in PreciseCells : Visits("marked", c) = 1
    /\ \E c \in BlockCells : Bit(c) /\ ~isMarked(c)
    /\ \E c \in BlockCells : ~Bit(c) /\ isMarked(c)

(* C16: under fair scheduling of the workers every call of Task::run       *)
(* returns; when all have returned, every block of the source was handed   *)
(* out exactly once (and no other block was) and the sweep of the precise  *)
(* allocations is complete.                                                *)
C16_TaskTerminates ==
    /\ \A w \in Workers : (wk[w].pc = "run") ~> (wk[w].pc = "done")
    /\ [](AllWorkersDone =>
            /\ \A b \in Blocks :
                  task.handouts[b] = Once(b \in markingNotEmptyBitsView \cap m_blocksWithBits)
            /\ \E w \in Workers : wk[w].swept
            /\ task.m_doneVisitingPreciseAllocations)

(* C16 witness: all workers have returned after the source handed out two  *)
(* blocks and one worker swept the precise allocations.                    *)
C16_Witness ==
    /\ AllWorkersDone
    /\ \A b \in Blocks : task.handouts[b] = 1
    /\ \E w \in Workers : wk[w].swept
    /\ \E c \in PreciseCells : Visits("parallel", c) = 1

(* C17: add, remove, contains and clearLowerTierPreciseCell never wait: in *)
(* every state, whatever the other threads are in the middle of, a thread  *)
(* inside a call has a step of its own to take, every such step brings it  *)
(* closer to its return, and a call takes at most four steps of its        *)
(* thread.                                                                 *)
C17_NonBlocking ==
    /\ [](\A t \in Threads : th[t].pc # "idle" => ENABLED ThreadStep(t))
    /\ [][\A t \in Threads :
             th'[t] # th[t] =>
                IF th[t].pc = "idle"
                THEN StepsLeft(th'[t].pc) <= 3
                ELSE StepsLeft(th'[t].pc) < StepsLeft(th[t].pc)]_vars

(* C17 witness: a thread is about to install its candidate bitmap for the  *)
(* block that another thread, stopped in the middle of provisioning, has   *)
(* flagged but not installed.                                              *)
C17_Witness ==
    \E t1, t2 \in Threads : \E b \in Blocks :
        /\ t1 # t2
        /\ th[t1].pc = "addSlow_cas" /\ blockIndex(th[t1].cell) = b
        /\ th[t2].pc = "addSlow_cas" /\ blockIndex(th[t2].cell) = b
        /\ m_bits[b] = NULL
        /\ ENABLED ThreadStep(t1)

(* An enumeration has read the slot of a block it selected and found no    *)
(* bitmap there.                                                           *)
ReadThroughAbsentBitmap ==
    \/ en.pc = "null_deref"
    \/ \E w \in Workers : wk[w].pc = "null_deref"

C19_OnlyOwnBitChanges ==
    [][\A t \in Threads :
          (th'[t] # th[t] /\ th'[t].op \in {"add", "remove"}) =>
              \A d \in Cells \ {th'[t].cell} : BitAfter(d) = Bit(d)]_vars

(* C19 witness: an add has created the bitmap of its block, which holds    *)
(* the bit of its cell alone, while another block and the precise tier     *)
(* hold members added before.                                              *)
C19_Witness ==
    \E t \in Threads, c \in BlockCells :
        /\ th[t] = Returned("add", c, TRUE)
        /\ m_bits[blockIndex(c)] = BitmapId(t, blockIndex(c))
        /\ bitmaps[m_bits[blockIndex(c)]] = {atomNumber(c)}
        /\ \E d \in BlockCells : blockIndex(d) # blockIndex(c) /\ Bit(d)
        /\ \E d \in PreciseCells : Bit(d)

(* The calls of add(c) and of remove(c) that have returned true, and the   *)
(* successful add that made c a member before the calls (if it was one).   *)
AddsTrue(c) == Cardinality({t \in Threads : th[t] = Returned("add", c, TRUE)})
RemovesTrue(c) == Cardinality({t \in Threads : th[t] = Returned("remove", c, TRUE)})
AllRemoved(c) == \A t \in Threads : th[t].pc = "idle" /\ th[t].op = "remove" /\ th[t].cell = c

(* C20: when every thread calls remove(c) once, concurrently, for the same *)
(* member c, exactly one call returns true; and in every interleaving of   *)
(* calls of add(c) and remove(c) the removes that returned true never      *)
(* outnumber the adds that returned true, nor fall short by more than one. *)
C20_RemoveTrueAtMostOncePerAdd ==
    \A c \in Cells :
        /\ RemovesTrue(c) <= Once(c \in h_init) + AddsTrue(c)
        /\ Once(c \in h_init) + AddsTrue(c) <= RemovesTrue(c) + 1
        /\ AllRemoved(c) => RemovesTrue(c) = Once(c \in h_init)

(* C20 witness: every thread has returned from remove(c) of the same       *)
(* member block cell c, one with true and another with false.              *)
C20_Witness ==
    \E c \in BlockCells :
        /\ c \in h_init
        /\ AllRemoved(c)
        /\ \E t1, t2 \in Threads : th[t1].ret /\ ~th[t2].ret
        /\ ~Bit(c)

====
